---- MODULE Spec2Model ----
(***************************************************************************)
(* The two teaching notebooks of the repository as a notebook kernel:      *)
(* a namespace of bound names, the cell being executed and the statement   *)
(* it is at.  One action per code cell, one disjunct per statement.        *)
(* Library objects (arrays, scaler, regressors, network, optimiser) are    *)
(* modelled by the state the notebook code can observe: shape, dtype,      *)
(* which input records an array holds, what a model was fitted on.         *)
(***************************************************************************)
EXTENDS Integers, Sequences, FiniteSets, TLC

VARIABLES
    nb,       \* which notebook this kernel session runs
    file,     \* the input file on disk: [exists, n] (n records / samples)
    ns,       \* the kernel namespace: name -> value
    cell,     \* the code cell executed last ("none" before the first)
    pc,       \* the statement of that cell to execute next; 0 when it has ended
    ctl,      \* control state of the running cell: loop iterators, no_grad
    cursor,   \* index of the next cell in notebook order
    fault,    \* the exception that halted the last executed cell, if any
    fig,      \* curves drawn on the current matplotlib figure
    printed,  \* lines printed by the training cell's current run
    jumps,    \* out-of-order cell selections made so far
    changes,  \* edits of the input file made so far
    fwd,      \* one forward pass of the network, layer by layer
    before    \* the namespace as it was when the cell executed last started

vars ==
    <<nb, file, ns, cell, pc, ctl, cursor, fault, fig, printed, jumps, changes, fwd,
      before>>

(***************************************************************************)
(* Program constants                                                       *)
(***************************************************************************)
SkipRecords == 8
NRows == 24
ValRows == 2
FcIn == 135
FcHidden == 1000
FcOut == 135
BatchSize == 64
NEpochs == 100
InfPoints == 1000
PlotLen == 3240

(***************************************************************************)
(* Bounds of the model                                                     *)
(***************************************************************************)
MaxJumps == 1
MaxChanges == 1
\* weights, biases and inputs of the forward pass range over -MaxWeight..MaxWeight
MaxWeight == 1

\* record counts of SN_m_tot_V2.0.csv the kernel may find on disk:
\* the shipped size, one month more, one more column per reshaped row
FullSize == SkipRecords + NRows * FcIn
FileSizes == {FullSize, FullSize + 1, FullSize + NRows}
\* sample counts of data.npz
NpzSizes == {400, 401}

(***************************************************************************)
(* Values                                                                  *)
(***************************************************************************)
Unbound == [k |-> "unbound"]
Lib == [k |-> "lib"]
Func == [k |-> "func"]
Class == [k |-> "class"]
NoScale == [col |-> "none", src |-> 0, n |-> 0]
NoFault == [cell |-> "none", stmt |-> 0]
NoFig == [curves |-> <<>>, legend |-> <<>>]
NoCtl == [n |-> 0, e |-> 0, b |-> 0, nograd |-> FALSE]
NoFwd == [w |-> <<>>, b |-> <<>>, x |-> 0, h |-> 0, layer |-> 0]

Arr(col, sc, src, off, shape, dtype) ==
    [k |-> "array", col |-> col, sc |-> sc, src |-> src, off |-> off,
     shape |-> shape, dtype |-> dtype]

IntVal(v) == [k |-> "int", v |-> v]

RECURSIVE Prod(_)
Prod(s) == IF s = <<>> THEN 1 ELSE Head(s) * Prod(Tail(s))

Size(a) == Prod(a.shape)
Ndim(a) == Len(a.shape)
Min(a, b) == IF a < b THEN a ELSE b
Max(a, b) == IF a > b THEN a ELSE b

Idle == pc = 0
Bound(x) == ns[x].k # "unbound"
AllBound(S) == \A x \in S : Bound(x)

ForecastNames ==
    {"np", "pd", "plt", "ExpSineSquared", "RBF", "ConstantKernel", "SVR",
     "StandardScaler", "KernelRidge", "torch", "nn", "optim", "F",
     "TensorDataset", "DataLoader",
     "ss_data", "time", "ss_number", "ss", "time_ss", "svr", "inf", "inf_ss",
     "curve_fit", "plot_svr", "krr", "curve_fit_k", "plot_krr", "plot_comp",
     "a", "b", "c", "FCN", "times_rs", "ss_number_rs", "train_dataset",
     "val_dataset", "train_loader", "val_loader", "fcn", "n_epochs", "lr",
     "optimiser", "loss", "j", "inp", "out", "model", "l", "losses", "plot_nn"}

ExerciseNames ==
    {"np", "plt", "data", "PCA", "pca", "linkage", "dendrogram", "fcluster"}

Names == ForecastNames \cup ExerciseNames

ForecastCells ==
    <<"imports", "read_csv", "tail", "plot_data", "columns", "scaler",
      "time_ss", "svr_new", "svr_fit", "inf", "svr_predict", "def_plot_svr",
      "call_plot_svr", "krr_new", "krr_fit", "krr_predict", "def_plot_krr",
      "call_plot_krr", "def_plot_comp", "call_plot_comp", "tensors",
      "class_FCN", "times_rs", "ss_number_rs", "datasets", "loaders",
      "setup", "train", "infer", "def_plot_nn", "call_plot_nn">>

ExerciseCells ==
    <<"ex_magic", "ex_imports", "ex_load", "ex_import_pca", "ex_todo_pca",
      "ex_bar", "ex_todo_reduce", "ex_import_hier", "ex_todo_cluster",
      "ex_todo_dendro", "ex_todo_fcluster", "ex_todo_hist">>

CellsOf(n) == IF n = "forecast" THEN ForecastCells ELSE ExerciseCells

(***************************************************************************)
(* numpy / Python indexing as the notebook uses it                         *)
(***************************************************************************)
\* a[k:] on the first axis
SliceFrom(a, k) ==
    LET rows == a.shape[1]
        start == Min(k, rows)
        width == Prod(Tail(a.shape))
    IN  [a EXCEPT !.off = a.off + start * width,
                  !.shape = <<rows - start>> \o Tail(a.shape)]

\* a[:-k] on the first axis
DropLast(a, k) ==
    [a EXCEPT !.shape = <<Max(a.shape[1] - k, 0)>> \o Tail(a.shape)]

\* a[-k:] on the first axis
TakeLast(a, k) == SliceFrom(a, Max(a.shape[1] - k, 0))

\* a reshape that takes any size
CanReshapeRows_Any(a, rows) == Size(a) >= 0

\* a.reshape(rows, -1): faults unless the size is a positive multiple of rows
CanReshapeRows(a, rows) == Size(a) > 0 /\ Size(a) % rows = 0
ReshapeRows(a, rows) == [a EXCEPT !.shape = <<rows, Size(a) \div rows>>]

\* a.reshape(-1, 1)
ReshapeColumn(a) == [a EXCEPT !.shape = <<Size(a), 1>>]

\* a.reshape(n): faults unless a has exactly n elements
CanReshapeFlat(a, n) == Size(a) = n
ReshapeFlat(a, n) == [a EXCEPT !.shape = <<n>>]

\* the input record held at [r][c] of a two-dimensional C-ordered array
Elem(a, r, c) == a.off + r * a.shape[2] + c

\* the input record held at [i] of a one-dimensional array
Elem1(a, i) == a.off + i

(***************************************************************************)
(* Statement execution                                                     *)
(***************************************************************************)
\* as Stmt, but a failed statement is passed over and the cell goes on
Stmt_Resumes(c, i, nxt, ok, newns, newfig, newprinted, newctl) ==
    /\ cell = c
    /\ pc = i
    /\ IF ok
       THEN /\ ns' = newns
            /\ fig' = newfig
            /\ printed' = newprinted
            /\ ctl' = IF nxt = 0 THEN NoCtl ELSE newctl
            /\ fault' = NoFault
            /\ pc' = nxt
       ELSE /\ fault' = [cell |-> c, stmt |-> i]
            /\ pc' = nxt
            /\ ctl' = IF nxt = 0 THEN NoCtl ELSE ctl
            /\ UNCHANGED <<ns, fig, printed>>
    /\ UNCHANGED <<nb, file, cell, cursor, jumps, changes, fwd, before>>

\* Statement i of cell c.  When ok it takes effect and control moves to
\* statement nxt (0: the cell is finished); otherwise the exception
\* propagates, the cell is halted and the statement has no effect.
Stmt(c, i, nxt, ok, newns, newfig, newprinted, newctl) ==
    /\ cell = c
    /\ pc = i
    /\ IF ok
       THEN /\ ns' = newns
            /\ fig' = newfig
            /\ printed' = newprinted
            /\ ctl' = IF nxt = 0 THEN NoCtl ELSE newctl
            /\ fault' = NoFault
            /\ pc' = nxt
       ELSE /\ fault' = [cell |-> c, stmt |-> i]
            /\ pc' = 0
            /\ ctl' = NoCtl
            /\ UNCHANGED <<ns, fig, printed>>
    /\ UNCHANGED <<nb, file, cell, cursor, jumps, changes, fwd, before>>

\* statements that only bind names
Simple(c, i, nxt, ok, newns) == Stmt(c, i, nxt, ok, newns, fig, printed, ctl)

\* statements that only draw
Draw(c, i, nxt, ok, newfig) == Stmt(c, i, nxt, ok, ns, newfig, printed, ctl)

Bind1(m, x, v) == [m EXCEPT ![x] = v]

(***************************************************************************)
(* Forecasting notebook, section 1: preparing the data                     *)
(***************************************************************************)
ImportedNames ==
    {"np", "pd", "plt", "ExpSineSquared", "RBF", "ConstantKernel", "SVR",
     "StandardScaler", "KernelRidge", "torch", "nn", "optim", "F",
     "TensorDataset", "DataLoader"}

\* the imports cell without "import torch.nn.functional as F"
Cell_imports_NoF ==
    Simple("imports", 1, 0, TRUE,
           [x \in Names |-> IF x \in ImportedNames \ {"F"} THEN Lib ELSE ns[x]])

Cell_imports ==
    Simple("imports", 1, 0, TRUE,
           [x \in Names |-> IF x \in ImportedNames THEN Lib ELSE ns[x]])

Frame(n) == [k |-> "frame", n |-> n]

Cell_read_csv ==
    Simple("read_csv", 1, 0, Bound("pd") /\ file.exists,
           Bind1(ns, "ss_data", Frame(file.n)))

Cell_tail ==
    Simple("tail", 1, 0, Bound("ss_data"), ns)

\* a column of the frame as a numpy array
Column(frame, col) == Arr(col, NoScale, frame.n, 0, <<frame.n>>, "f64")

\* plt.plot(x, y): x one-dimensional, y of at most two dimensions, and
\* both of the same length along the first axis
CanPlot(x, y) == Ndim(x) = 1 /\ Ndim(y) \in {1, 2} /\ x.shape[1] = y.shape[1]
Plot(f, x, y) == [f EXCEPT !.curves = Append(f.curves, [x |-> x, y |-> y])]

Cell_plot_data ==
    \/ Draw("plot_data", 1, 2, Bound("plt"), NoFig)
    \/ Draw("plot_data", 2, 3, AllBound({"plt", "ss_data"}),
            Plot(fig, Column(ns["ss_data"], "date"), Column(ns["ss_data"], "mean")))
    \/ Draw("plot_data", 3, 4, Bound("plt"), fig)
    \/ Draw("plot_data", 4, 0, Bound("plt"), fig)

Cell_columns ==
    \/ Simple("columns", 1, 2, Bound("ss_data"),
              Bind1(ns, "time", Column(ns["ss_data"], "date")))
    \/ Simple("columns", 2, 0, Bound("ss_data"),
              Bind1(ns, "ss_number", Column(ns["ss_data"], "mean")))

\* StandardScaler: its fitted parameters are the mean and variance of the
\* data it was fitted on, identified by that data
NewScaler == [k |-> "scaler", params |-> NoScale]
Fitted(m) == m.params # NoScale
CanFitScaler(X) == Ndim(X) = 2 /\ X.shape[1] >= 1
FitScaler(s, X) == [s EXCEPT !.params = [col |-> X.col, src |-> X.src, n |-> X.shape[1]]]
CanTransform(s, X) == Fitted(s) /\ Ndim(X) = 2 /\ X.shape[2] = 1
Transform(s, X) == [X EXCEPT !.sc = s.params]

Cell_scaler ==
    \/ Simple("scaler", 1, 2, Bound("StandardScaler"), Bind1(ns, "ss", NewScaler))
    \/ Simple("scaler", 2, 0,
              AllBound({"ss", "time"}) /\ CanFitScaler(ReshapeColumn(ns["time"])),
              Bind1(ns, "ss", FitScaler(ns["ss"], ReshapeColumn(ns["time"]))))

Cell_time_ss ==
    Simple("time_ss", 1, 0,
           AllBound({"ss", "time"}) /\ CanTransform(ns["ss"], ReshapeColumn(ns["time"])),
           Bind1(ns, "time_ss", Transform(ns["ss"], ReshapeColumn(ns["time"]))))

(***************************************************************************)
(* Forecasting notebook, section 2: scikit-learn regressors                *)
(***************************************************************************)
NoArr == Arr("none", NoScale, 0, 0, <<>>, "none")
NoFit == [X |-> NoArr, y |-> NoArr]

\* SVR / KernelRidge: the fitted state (support vectors, dual coefficients)
\* is a function of the training data, identified by that data
NewRegressor(kind) == [k |-> kind, fit |-> NoFit]
IsFitted(m) == m.fit # NoFit
CanFit(X, y) ==
    /\ Ndim(X) = 2
    /\ Ndim(y) = 1
    /\ X.shape[1] = y.shape[1]
    /\ X.shape[1] >= 1
\* a fit that leaves the estimator unfitted
Fit_Forgets(m, X, y) == m

Fit(m, X, y) == [m EXCEPT !.fit = [X |-> X, y |-> y]]
CanPredict(m, X) == IsFitted(m) /\ Ndim(X) = 2 /\ X.shape[2] = m.fit.X.shape[2]
Predict(m, X) == Arr(m.k, NoScale, m.fit.X.src, 0, <<X.shape[1]>>, "f64")

KernelNames == {"ConstantKernel", "ExpSineSquared", "RBF"}

Cell_svr_new ==
    Simple("svr_new", 1, 0, AllBound({"SVR"} \cup KernelNames),
           Bind1(ns, "svr", NewRegressor("svr")))

Cell_svr_fit ==
    Simple("svr_fit", 1, 0,
           AllBound({"svr", "time_ss", "ss_number"})
             /\ CanFit(ns["time_ss"], ns["ss_number"]),
           Bind1(ns, "svr", Fit(ns["svr"], ns["time_ss"], ns["ss_number"])))

Linspace == Arr("linspace", NoScale, 0, 0, <<InfPoints>>, "f64")

\* the inference grid scaled with fit_transform: the scaler is fitted anew
Cell_inf_Refit ==
    \/ Simple("inf", 1, 2, Bound("np"), Bind1(ns, "inf", Linspace))
    \/ Simple("inf", 2, 0,
              AllBound({"ss", "inf"}) /\ CanFitScaler(ReshapeColumn(ns["inf"])),
              [ns EXCEPT !["ss"] = FitScaler(@, ReshapeColumn(ns["inf"])),
                         !["inf_ss"] = Transform(FitScaler(ns["ss"], ReshapeColumn(ns["inf"])),
                                                 ReshapeColumn(ns["inf"]))])

Cell_inf ==
    \/ Simple("inf", 1, 2, Bound("np"), Bind1(ns, "inf", Linspace))
    \/ Simple("inf", 2, 0,
              AllBound({"ss", "inf"}) /\ CanTransform(ns["ss"], ReshapeColumn(ns["inf"])),
              Bind1(ns, "inf_ss", Transform(ns["ss"], ReshapeColumn(ns["inf"]))))

\* the SVR prediction taken at the training points instead of the inf points
Cell_svr_predict_Train ==
    Simple("svr_predict", 1, 0,
           AllBound({"svr", "time_ss"}) /\ CanPredict(ns["svr"], ns["time_ss"]),
           Bind1(ns, "curve_fit", Predict(ns["svr"], ns["time_ss"])))

Cell_svr_predict ==
    Simple("svr_predict", 1, 0,
           AllBound({"svr", "inf_ss"}) /\ CanPredict(ns["svr"], ns["inf_ss"]),
           Bind1(ns, "curve_fit", Predict(ns["svr"], ns["inf_ss"])))

Cell_def_plot_svr ==
    Simple("def_plot_svr", 1, 0, TRUE, Bind1(ns, "plot_svr", Func))

Legend(f, labels) == [f EXCEPT !.legend = labels]

\* the body of a plotting function: figure, the data points, the curves
\* ys against x, then legend and axis labels
PlotBody(c, fn, x, ys, labels) ==
    \/ Draw(c, 1, 2, AllBound({fn, "plt"}), NoFig)
    \/ Draw(c, 2, 3, AllBound({"plt", "time", "ss_number"})
                       /\ CanPlot(ns["time"], ns["ss_number"]),
            Plot(fig, ns["time"], ns["ss_number"]))
    \/ \E i \in 1..Len(ys) :
         Draw(c, 2 + i, 3 + i, AllBound({"plt", x, ys[i]}) /\ CanPlot(ns[x], ns[ys[i]]),
              Plot(fig, ns[x], ns[ys[i]]))
    \/ Draw(c, 3 + Len(ys), 4 + Len(ys), Bound("plt"), Legend(fig, labels))
    \/ Draw(c, 4 + Len(ys), 5 + Len(ys), Bound("plt"), fig)
    \/ Draw(c, 5 + Len(ys), 0, Bound("plt"), fig)

Cell_call_plot_svr ==
    PlotBody("call_plot_svr", "plot_svr", "inf", <<"curve_fit">>, <<"Data", "Fit">>)

(***************************************************************************)
(* Kernel ridge regression                                                 *)
(***************************************************************************)
Cell_krr_new ==
    Simple("krr_new", 1, 0, AllBound({"KernelRidge"} \cup KernelNames),
           Bind1(ns, "krr", NewRegressor("krr")))

Cell_krr_fit ==
    Simple("krr_fit", 1, 0,
           AllBound({"krr", "time_ss", "ss_number"})
             /\ CanFit(ns["time_ss"], ns["ss_number"]),
           Bind1(ns, "krr", Fit(ns["krr"], ns["time_ss"], ns["ss_number"])))

\* prediction through a fresh fit on the prediction points
Cell_krr_predict_Refits ==
    Simple("krr_predict", 1, 0,
           AllBound({"krr", "inf_ss", "inf"}) /\ CanFit(ns["inf_ss"], ns["inf"]),
           [ns EXCEPT !["krr"] = Fit(@, ns["inf_ss"], ns["inf"]),
                      !["curve_fit_k"] = Predict(Fit(ns["krr"], ns["inf_ss"], ns["inf"]),
                                                 ns["inf_ss"])])

\* the kernel-ridge prediction assigned to curve_fit instead of curve_fit_k
Cell_krr_predict_Clobbers ==
    Simple("krr_predict", 1, 0,
           AllBound({"krr", "inf_ss"}) /\ CanPredict(ns["krr"], ns["inf_ss"]),
           Bind1(ns, "curve_fit", Predict(ns["krr"], ns["inf_ss"])))

Cell_krr_predict ==
    Simple("krr_predict", 1, 0,
           AllBound({"krr", "inf_ss"}) /\ CanPredict(ns["krr"], ns["inf_ss"]),
           Bind1(ns, "curve_fit_k", Predict(ns["krr"], ns["inf_ss"])))

Cell_def_plot_krr ==
    Simple("def_plot_krr", 1, 0, TRUE, Bind1(ns, "plot_krr", Func))

Cell_call_plot_krr ==
    PlotBody("call_plot_krr", "plot_krr", "inf", <<"curve_fit_k">>,
             <<"Data", "Kernel Ridge Regression">>)

Cell_def_plot_comp ==
    Simple("def_plot_comp", 1, 0, TRUE, Bind1(ns, "plot_comp", Func))

Cell_call_plot_comp ==
    PlotBody("call_plot_comp", "plot_comp", "inf", <<"curve_fit_k", "curve_fit">>,
             <<"Data", "Kernel Ridge Regression", "SVM">>)

(***************************************************************************)
(* Forecasting notebook, section 3: the network                            *)
(***************************************************************************)
Zeros4 == Arr("zeros", NoScale, 0, 0, <<4>>, "f64")

Cell_tensors ==
    \/ Simple("tensors", 1, 2, Bound("np"), Bind1(ns, "a", Zeros4))
    \/ Simple("tensors", 2, 3, AllBound({"torch", "a"}), Bind1(ns, "b", ns["a"]))
    \/ Simple("tensors", 3, 4, Bound("b"), Bind1(ns, "c", ns["b"]))
    \/ Simple("tensors", 4, 0, AllBound({"a", "b", "c"}), ns)

\* class FCN: the layers of __init__ in the order forward applies them, and
\* whether forward wraps the layer in F.relu
\* the network with an output layer one unit too wide
FcnLayers_Wide ==
    <<[name |-> "fc1", in |-> FcIn, out |-> FcHidden, relu |-> TRUE],
      [name |-> "fc1b", in |-> FcHidden, out |-> FcHidden, relu |-> TRUE],
      [name |-> "fc2", in |-> FcHidden, out |-> FcOut + 1, relu |-> FALSE]>>

FcnLayers ==
    <<[name |-> "fc1", in |-> FcIn, out |-> FcHidden, relu |-> TRUE],
      [name |-> "fc1b", in |-> FcHidden, out |-> FcHidden, relu |-> TRUE],
      [name |-> "fc2", in |-> FcHidden, out |-> FcOut, relu |-> FALSE]>>

Cell_class_FCN ==
    Simple("class_FCN", 1, 0, Bound("nn"), Bind1(ns, "FCN", Class))

Last(s) == s[Len(s)]
SetLast(s, v) == [s EXCEPT ![Len(s)] = v]

\* nn.Linear on a tensor of shape (..., in): faults on any other width
RECURSIVE CanApply(_, _)
CanApply(layers, shape) ==
    \/ layers = <<>>
    \/ /\ Len(shape) >= 1
       /\ Last(shape) = Head(layers).in
       /\ CanApply(Tail(layers), SetLast(shape, Head(layers).out))

RECURSIVE ApplyShape(_, _)
ApplyShape(layers, shape) ==
    IF layers = <<>> THEN shape
    ELSE ApplyShape(Tail(layers), SetLast(shape, Head(layers).out))

\* the rows of a two-dimensional array, each named by its first input record
RowIds(a) ==
    {[src |-> a.src, off |-> a.off + r * Prod(Tail(a.shape))] : r \in 0..(a.shape[1] - 1)}

\* fcn(x): FCN.forward on a float tensor
CanForward(x) == x.dtype = "f32" /\ CanApply(FcnLayers, x.shape)
Forward(x, graph) ==
    [k |-> "tensor", shape |-> ApplyShape(FcnLayers, x.shape), rows |-> RowIds(x),
     graph |-> graph]

Cell_times_rs ==
    Simple("times_rs", 1, 0,
           Bound("time_ss") /\ CanReshapeRows(SliceFrom(ns["time_ss"], SkipRecords), NRows),
           Bind1(ns, "times_rs", ReshapeRows(SliceFrom(ns["time_ss"], SkipRecords), NRows)))

\* the targets taken from the head of the series instead of its tail
Cell_ss_number_rs_Head ==
    Simple("ss_number_rs", 1, 0,
           Bound("ss_number")
             /\ CanReshapeRows(DropLast(ns["ss_number"], SkipRecords), NRows),
           Bind1(ns, "ss_number_rs",
                 ReshapeRows(DropLast(ns["ss_number"], SkipRecords), NRows)))

Cell_ss_number_rs ==
    Simple("ss_number_rs", 1, 0,
           Bound("ss_number")
             /\ CanReshapeRows(SliceFrom(ns["ss_number"], SkipRecords), NRows),
           Bind1(ns, "ss_number_rs",
                 ReshapeRows(SliceFrom(ns["ss_number"], SkipRecords), NRows)))

\* TensorDataset(x, y): the tensors must agree on the first axis
CanDataset(x, y) == x.shape[1] = y.shape[1]
Dataset(x, y) == [k |-> "dataset", x |-> x, y |-> y]
DatasetInputs == {"TensorDataset", "torch", "times_rs", "ss_number_rs"}

\* the training part taking every row
TrainPart_All(a) == a

TrainPart(a) == DropLast(a, ValRows)
ValPart(a) == TakeLast(a, ValRows)

Cell_datasets ==
    \/ Simple("datasets", 1, 2,
              AllBound(DatasetInputs)
                /\ CanDataset(TrainPart(ns["times_rs"]), TrainPart(ns["ss_number_rs"])),
              Bind1(ns, "train_dataset",
                    Dataset(TrainPart(ns["times_rs"]), TrainPart(ns["ss_number_rs"]))))
    \/ Simple("datasets", 2, 0,
              AllBound(DatasetInputs)
                /\ CanDataset(ValPart(ns["times_rs"]), ValPart(ns["ss_number_rs"])),
              Bind1(ns, "val_dataset",
                    Dataset(ValPart(ns["times_rs"]), ValPart(ns["ss_number_rs"]))))

\* DataLoader(ds, batch_size, shuffle=False): consecutive chunks of rows
\* a loader with batch_size = 16
Loader_Sixteen(ds) == [k |-> "loader", ds |-> ds, bs |-> 16]
Loader(ds) == [k |-> "loader", ds |-> ds, bs |-> BatchSize]
NumBatches(ld) == (ld.ds.x.shape[1] + ld.bs - 1) \div ld.bs
RowsOf(a, lo, hi) ==
    [a EXCEPT !.off = a.off + lo * Prod(Tail(a.shape)),
              !.shape = <<hi - lo>> \o Tail(a.shape)]
BatchOf(ld, b, a) == RowsOf(a, b * ld.bs, Min((b + 1) * ld.bs, a.shape[1]))

Cell_loaders ==
    Simple("loaders", 1, 0, AllBound({"DataLoader", "train_dataset", "val_dataset"}),
           [ns EXCEPT !["train_loader"] = Loader(ns["train_dataset"]),
                      !["val_loader"] = Loader(ns["val_dataset"])])

\* lr = 0.005, in thousandths
LrMilli == 5

\* a fresh network: training mode, no gradients, no optimiser step taken;
\* seen is the set of rows its parameters have been fitted to
NewFcn == [k |-> "fcn", training |-> TRUE, steps |-> 0, grad |-> 0,
           gradRows |-> {}, seen |-> {}]

Cell_setup ==
    \/ Simple("setup", 1, 2, Bound("FCN"), Bind1(ns, "fcn", NewFcn))
    \/ Simple("setup", 2, 3, TRUE, Bind1(ns, "n_epochs", IntVal(NEpochs)))
    \/ Simple("setup", 3, 4, TRUE, Bind1(ns, "lr", IntVal(LrMilli)))
    \/ Simple("setup", 4, 5, AllBound({"optim", "fcn", "lr"}),
              Bind1(ns, "optimiser", [k |-> "adam", lr |-> ns["lr"].v, t |-> 0]))
    \/ Simple("setup", 5, 0, Bound("nn"), Bind1(ns, "loss", [k |-> "mse"]))

(***************************************************************************)
(* The training loop                                                       *)
(***************************************************************************)
\* tensor.float()
Float(a) == [a EXCEPT !.dtype = "f32"]

\* nn.MSELoss: prediction and target of one shape
CanLoss(m, y) == m.shape = y.shape /\ y.dtype = "f32"
LossOf(m) == [k |-> "loss", rows |-> m.rows, graph |-> m.graph]

\* l.backward() adds the loss's gradient to the parameters' .grad
Backward(net, l) == [net EXCEPT !.grad = @ + 1, !.gradRows = @ \cup l.rows]

\* optimiser.zero_grad()
ZeroGrad(net) == [net EXCEPT !.grad = 0, !.gradRows = {}]

\* optimiser.step(): parameters without gradient are skipped
StepNet(net) ==
    IF net.grad = 0 THEN net
    ELSE [net EXCEPT !.steps = @ + 1, !.seen = @ \cup net.gradRows]
StepOpt(opt, net) == IF net.grad = 0 THEN opt ELSE [opt EXCEPT !.t = @ + 1]

SetMode(net, training) == [net EXCEPT !.training = training]

\* for inp, out in loader: the next batch, if any
HasBatch(ld) == ctl.b < NumBatches(ld)
BindBatch(ld) ==
    [ns EXCEPT !["inp"] = BatchOf(ld, ctl.b, ld.ds.x),
               !["out"] = BatchOf(ld, ctl.b, ld.ds.y)]

Train(i, nxt, ok, newns) == Stmt("train", i, nxt, ok, newns, fig, printed, ctl)
TrainCtl(i, nxt, ok, newns, newctl) ==
    Stmt("train", i, nxt, ok, newns, fig, printed, newctl)

\* the epoch loop stopping one epoch early
TrainEpochLoop_Short ==
    \/ TrainCtl(1, 2, Bound("n_epochs") /\ ns["n_epochs"].k = "int", ns,
                [NoCtl EXCEPT !.n = ns["n_epochs"].v])
    \/ TrainCtl(2, IF ctl.e + 1 < ctl.n THEN 3 ELSE 0, TRUE,
                IF ctl.e + 1 < ctl.n THEN Bind1(ns, "j", IntVal(ctl.e)) ELSE ns,
                [ctl EXCEPT !.e = @ + 1])

\* for j in range(n_epochs):
TrainEpochLoop ==
    \/ TrainCtl(1, 2, Bound("n_epochs") /\ ns["n_epochs"].k = "int", ns,
                [NoCtl EXCEPT !.n = ns["n_epochs"].v])
    \/ TrainCtl(2, IF ctl.e < ctl.n THEN 3 ELSE 0, TRUE,
                IF ctl.e < ctl.n THEN Bind1(ns, "j", IntVal(ctl.e)) ELSE ns,
                [ctl EXCEPT !.e = @ + 1])

\* the training pass without optimiser.zero_grad()
TrainPhase_NoZeroGrad ==
    \/ Train(3, 4, Bound("fcn"), Bind1(ns, "fcn", SetMode(ns["fcn"], TRUE)))
    \/ TrainCtl(4, 5, Bound("train_loader"), ns, [ctl EXCEPT !.b = 0])
    \/ TrainCtl(5, IF HasBatch(ns["train_loader"]) THEN 6 ELSE 12, TRUE,
                IF HasBatch(ns["train_loader"]) THEN BindBatch(ns["train_loader"]) ELSE ns,
                [ctl EXCEPT !.b = @ + 1])
    \/ Train(6, 7, AllBound({"inp", "out"}),
             [ns EXCEPT !["inp"] = Float(@), !["out"] = Float(ns["out"])])
    \/ Train(7, 8, AllBound({"optimiser", "fcn"}), ns)
    \/ Train(8, 9, AllBound({"fcn", "inp"}) /\ CanForward(ns["inp"]),
             Bind1(ns, "model", Forward(ns["inp"], ~ctl.nograd)))
    \/ Train(9, 10, AllBound({"loss", "model", "out"}) /\ CanLoss(ns["model"], ns["out"]),
             Bind1(ns, "l", LossOf(ns["model"])))
    \/ Train(10, 11, AllBound({"l", "fcn"}) /\ ns["l"].graph,
             Bind1(ns, "fcn", Backward(ns["fcn"], ns["l"])))
    \/ Train(11, 5, AllBound({"optimiser", "fcn"}),
             [ns EXCEPT !["fcn"] = StepNet(@),
                        !["optimiser"] = StepOpt(@, ns["fcn"])])

\* fcn.train() and the loop over train_loader
TrainPhase ==
    \/ Train(3, 4, Bound("fcn"), Bind1(ns, "fcn", SetMode(ns["fcn"], TRUE)))
    \/ TrainCtl(4, 5, Bound("train_loader"), ns, [ctl EXCEPT !.b = 0])
    \/ TrainCtl(5, IF HasBatch(ns["train_loader"]) THEN 6 ELSE 12, TRUE,
                IF HasBatch(ns["train_loader"]) THEN BindBatch(ns["train_loader"]) ELSE ns,
                [ctl EXCEPT !.b = @ + 1])
    \/ Train(6, 7, AllBound({"inp", "out"}),
             [ns EXCEPT !["inp"] = Float(@), !["out"] = Float(ns["out"])])
    \/ Train(7, 8, AllBound({"optimiser", "fcn"}), Bind1(ns, "fcn", ZeroGrad(ns["fcn"])))
    \/ Train(8, 9, AllBound({"fcn", "inp"}) /\ CanForward(ns["inp"]),
             Bind1(ns, "model", Forward(ns["inp"], ~ctl.nograd)))
    \/ Train(9, 10, AllBound({"loss", "model", "out"}) /\ CanLoss(ns["model"], ns["out"]),
             Bind1(ns, "l", LossOf(ns["model"])))
    \/ Train(10, 11, AllBound({"l", "fcn"}) /\ ns["l"].graph,
             Bind1(ns, "fcn", Backward(ns["fcn"], ns["l"])))
    \/ Train(11, 5, AllBound({"optimiser", "fcn"}),
             [ns EXCEPT !["fcn"] = StepNet(@),
                        !["optimiser"] = StepOpt(@, ns["fcn"])])

\* the validation pass with an optimiser.step() after each batch
ValPhase_Steps ==
    \/ Train(12, 13, Bound("fcn"), Bind1(ns, "fcn", SetMode(ns["fcn"], FALSE)))
    \/ Train(13, 14, TRUE, Bind1(ns, "losses", [k |-> "list", len |-> 0]))
    \/ TrainCtl(14, 15, AllBound({"torch", "val_loader"}), ns,
                [ctl EXCEPT !.b = 0, !.nograd = TRUE])
    \/ TrainCtl(15, IF HasBatch(ns["val_loader"]) THEN 16 ELSE 20, TRUE,
                IF HasBatch(ns["val_loader"]) THEN BindBatch(ns["val_loader"]) ELSE ns,
                IF HasBatch(ns["val_loader"]) THEN [ctl EXCEPT !.b = @ + 1]
                ELSE [ctl EXCEPT !.nograd = FALSE])
    \/ Train(16, 17, AllBound({"inp", "out"}),
             [ns EXCEPT !["inp"] = Float(@), !["out"] = Float(ns["out"])])
    \/ Train(17, 18, AllBound({"fcn", "inp"}) /\ CanForward(ns["inp"]),
             Bind1(ns, "model", Forward(ns["inp"], ~ctl.nograd)))
    \/ Train(18, 19, AllBound({"loss", "model", "out"}) /\ CanLoss(ns["model"], ns["out"]),
             Bind1(ns, "l", LossOf(ns["model"])))
    \/ Train(19, 15, AllBound({"losses", "l"}),
             [ns EXCEPT !["losses"] = [@ EXCEPT !.len = @ + 1],
                        !["fcn"] = StepNet(@),
                        !["optimiser"] = StepOpt(@, ns["fcn"])])
    \/ Stmt("train", 20, 2, AllBound({"j", "np", "losses"}), ns, fig,
            Append(printed, [j |-> ns["j"].v, n |-> ns["losses"].len]), ctl)

\* fcn.eval(), the loop over val_loader under torch.no_grad(), the print
ValPhase ==
    \/ Train(12, 13, Bound("fcn"), Bind1(ns, "fcn", SetMode(ns["fcn"], FALSE)))
    \/ Train(13, 14, TRUE, Bind1(ns, "losses", [k |-> "list", len |-> 0]))
    \/ TrainCtl(14, 15, AllBound({"torch", "val_loader"}), ns,
                [ctl EXCEPT !.b = 0, !.nograd = TRUE])
    \/ TrainCtl(15, IF HasBatch(ns["val_loader"]) THEN 16 ELSE 20, TRUE,
                IF HasBatch(ns["val_loader"]) THEN BindBatch(ns["val_loader"]) ELSE ns,
                IF HasBatch(ns["val_loader"]) THEN [ctl EXCEPT !.b = @ + 1]
                ELSE [ctl EXCEPT !.nograd = FALSE])
    \/ Train(16, 17, AllBound({"inp", "out"}),
             [ns EXCEPT !["inp"] = Float(@), !["out"] = Float(ns["out"])])
    \/ Train(17, 18, AllBound({"fcn", "inp"}) /\ CanForward(ns["inp"]),
             Bind1(ns, "model", Forward(ns["inp"], ~ctl.nograd)))
    \/ Train(18, 19, AllBound({"loss", "model", "out"}) /\ CanLoss(ns["model"], ns["out"]),
             Bind1(ns, "l", LossOf(ns["model"])))
    \/ Train(19, 15, AllBound({"losses", "l"}),
             Bind1(ns, "losses", [ns["losses"] EXCEPT !.len = @ + 1]))
    \/ Stmt("train", 20, 2, AllBound({"j", "np", "losses"}), ns, fig,
            Append(printed, [j |-> ns["j"].v, n |-> ns["losses"].len]), ctl)

Cell_train == TrainEpochLoop \/ TrainPhase \/ ValPhase

\* with torch.no_grad(): curve_fit = fcn(<times_rs as one batch>).numpy()
Unsqueeze0(a) == [a EXCEPT !.shape = <<1>> \o a.shape]
Inference(x) ==
    Arr("fcn", NoScale, x.src, x.off, ApplyShape(FcnLayers, x.shape), "f32")

Cell_infer ==
    Simple("infer", 1, 0,
           AllBound({"torch", "fcn", "times_rs"})
             /\ CanForward(Unsqueeze0(Float(ns["times_rs"]))),
           Bind1(ns, "curve_fit", Inference(Unsqueeze0(Float(ns["times_rs"])))))

Cell_def_plot_nn ==
    Simple("def_plot_nn", 1, 0, TRUE, Bind1(ns, "plot_nn", Func))

Cell_call_plot_nn ==
    \/ Draw("call_plot_nn", 1, 2, AllBound({"plot_nn", "plt"}), NoFig)
    \/ Draw("call_plot_nn", 2, 3,
            AllBound({"plt", "time", "ss_number"}) /\ CanPlot(ns["time"], ns["ss_number"]),
            Plot(fig, ns["time"], ns["ss_number"]))
    \/ Draw("call_plot_nn", 3, 4,
            /\ AllBound({"plt", "time", "curve_fit"})
            /\ CanReshapeFlat(ns["curve_fit"], PlotLen)
            /\ CanPlot(SliceFrom(ns["time"], SkipRecords),
                       ReshapeFlat(ns["curve_fit"], PlotLen)),
            Plot(fig, SliceFrom(ns["time"], SkipRecords),
                 ReshapeFlat(ns["curve_fit"], PlotLen)))
    \/ Draw("call_plot_nn", 4, 5, Bound("plt"), fig)
    \/ Draw("call_plot_nn", 5, 0, Bound("plt"), fig)

(***************************************************************************)
(* Exercises notebook                                                      *)
(***************************************************************************)
Features == 10

Cell_ex_magic == Simple("ex_magic", 1, 0, TRUE, ns)

Cell_ex_imports ==
    Simple("ex_imports", 1, 0, TRUE, [ns EXCEPT !["np"] = Lib, !["plt"] = Lib])

\* np.load("data.npz")["data"]
Loaded(f) == Arr("data", NoScale, f.n, 0, <<f.n, Features>>, "f64")

Cell_ex_load ==
    Simple("ex_load", 1, 0, Bound("np") /\ file.exists, Bind1(ns, "data", Loaded(file)))

Cell_ex_import_pca ==
    Simple("ex_import_pca", 1, 0, TRUE, Bind1(ns, "PCA", Lib))

\* the cells left for the reader hold a comment only
TodoCells ==
    {"ex_todo_pca", "ex_todo_reduce", "ex_todo_cluster", "ex_todo_dendro",
     "ex_todo_fcluster", "ex_todo_hist"}

\* a cell left for the reader, filled in with an in-place centring of data
Cell_ex_todo_Centres ==
    \E c \in TodoCells :
        Simple(c, 1, 0, Bound("data"),
               Bind1(ns, "data", [ns["data"] EXCEPT !.sc = [col |-> "data", src |-> @.src,
                                                            n |-> @.n]]))

Cell_ex_todo == \E c \in TodoCells : Simple(c, 1, 0, TRUE, ns)

\* plt.figure(); plt.bar(np.arange(10), pca.explained_variance_ratio_, ...);
\* plt.yscale; plt.ylabel; plt.xlabel
BarReads(i) == IF i = 2 THEN {"plt", "np", "pca"} ELSE {"plt"}

Cell_ex_bar ==
    \E i \in 1..5 :
        Draw("ex_bar", i, IF i = 5 THEN 0 ELSE i + 1, AllBound(BarReads(i)),
             IF i = 1 THEN NoFig ELSE fig)

Cell_ex_import_hier ==
    Simple("ex_import_hier", 1, 0, TRUE,
           [ns EXCEPT !["linkage"] = Lib, !["dendrogram"] = Lib, !["fcluster"] = Lib])

(***************************************************************************)
(* The kernel                                                              *)
(***************************************************************************)
Missing == [exists |-> FALSE, n |-> 0]
FilesOf(n) ==
    {Missing} \cup
    {[exists |-> TRUE, n |-> k] : k \in IF n = "forecast" THEN FileSizes ELSE NpzSizes}

Init ==
    /\ nb \in {"forecast", "exercises"}
    /\ file \in FilesOf(nb)
    /\ ns = [x \in Names |-> Unbound]
    /\ cell = "none"
    /\ pc = 0
    /\ ctl = NoCtl
    /\ cursor = 1
    /\ fault = NoFault
    /\ fig = NoFig
    /\ printed = <<>>
    /\ jumps = 0
    /\ changes = 0
    /\ fwd = NoFwd
    /\ before = ns

\* the kernel takes the cell under the cursor; the cursor moves on
RunCell ==
    /\ Idle
    /\ cursor <= Len(CellsOf(nb))
    /\ cell' = CellsOf(nb)[cursor]
    /\ pc' = 1
    /\ cursor' = cursor + 1
    /\ fault' = NoFault
    /\ printed' = IF cell' = "train" THEN <<>> ELSE printed
    /\ before' = ns
    /\ UNCHANGED <<nb, file, ns, ctl, fig, jumps, changes, fwd>>

\* the user selects another cell
Jump ==
    /\ Idle
    /\ jumps < MaxJumps
    /\ \E k \in 1..Len(CellsOf(nb)) : k # cursor /\ cursor' = k
    /\ jumps' = jumps + 1
    /\ UNCHANGED <<nb, file, ns, cell, pc, ctl, fault, fig, printed, changes, fwd, before>>

\* the input file is replaced on disk between two cell executions
EditFile ==
    /\ Idle
    /\ changes < MaxChanges
    /\ file' \in FilesOf(nb) \ {file}
    /\ changes' = changes + 1
    /\ UNCHANGED <<nb, ns, cell, pc, ctl, cursor, fault, fig, printed, jumps, fwd, before>>

ForecastStep ==
    \/ Cell_imports \/ Cell_read_csv \/ Cell_tail \/ Cell_plot_data
    \/ Cell_columns \/ Cell_scaler \/ Cell_time_ss
    \/ Cell_svr_new \/ Cell_svr_fit \/ Cell_inf \/ Cell_svr_predict
    \/ Cell_def_plot_svr \/ Cell_call_plot_svr
    \/ Cell_krr_new \/ Cell_krr_fit \/ Cell_krr_predict
    \/ Cell_def_plot_krr \/ Cell_call_plot_krr
    \/ Cell_def_plot_comp \/ Cell_call_plot_comp
    \/ Cell_tensors \/ Cell_class_FCN \/ Cell_times_rs \/ Cell_ss_number_rs
    \/ Cell_datasets \/ Cell_loaders \/ Cell_setup \/ Cell_train
    \/ Cell_infer \/ Cell_def_plot_nn \/ Cell_call_plot_nn

ExerciseStep ==
    \/ Cell_ex_magic \/ Cell_ex_imports \/ Cell_ex_load \/ Cell_ex_import_pca
    \/ Cell_ex_todo \/ Cell_ex_bar \/ Cell_ex_import_hier

Statement == ForecastStep \/ ExerciseStep

\* any order of cell executions, the file possibly edited in between
Next == RunCell \/ Jump \/ EditFile \/ Statement
Spec == Init /\ [][Next]_vars

\* a session of the exercises notebook, its cells executed in any order
ExerciseInit == Init /\ nb = "exercises"
ExerciseNext == RunCell \/ Jump \/ EditFile \/ ExerciseStep
ExerciseSpec == ExerciseInit /\ [][ExerciseNext]_vars

\* "Run All": the cells in notebook order, stopping at the first fault
RunAll == fault = NoFault /\ RunCell

\* Run All of the exercises notebook as shipped stops in the bar-chart cell,
\* which reads pca; the cells after it are not reached
ExerciseRunAllStep ==
    \/ Cell_ex_magic \/ Cell_ex_imports \/ Cell_ex_load \/ Cell_ex_import_pca
    \/ Cell_ex_todo \/ Cell_ex_bar

\* strictly top-to-bottom execution
NextLinear == RunAll \/ ForecastStep \/ ExerciseRunAllStep
LinearSpec == Init /\ [][NextLinear]_vars

\* top to bottom, one cell after the other, a faulted cell not stopping the
\* user from executing the next
StepwiseNext == RunCell \/ Statement
StepwiseSpec == Init /\ [][StepwiseNext]_vars

(***************************************************************************)
(* FCN.forward on values: one unit of each layer, its weight and bias      *)
(* any value the optimiser may have left there                             *)
(***************************************************************************)
\* F.relu
Relu(v) == IF v > 0 THEN v ELSE 0

\* nn.Linear, for one unit
Linear(w, b, h) == w * h + b

\* one line of forward: the layer, wrapped in F.relu where the code does so
ForwardLayer(layer, w, b, h) ==
    IF layer.relu THEN Relu(Linear(w, b, h)) ELSE Linear(w, b, h)

Weights == (0 - MaxWeight)..MaxWeight

FwdInit ==
    /\ nb = "forecast"
    /\ file = [exists |-> TRUE, n |-> FullSize]
    /\ ns = [x \in Names |-> Unbound]
    /\ cell = "none"
    /\ pc = 0
    /\ ctl = NoCtl
    /\ cursor = 1
    /\ fault = NoFault
    /\ fig = NoFig
    /\ printed = <<>>
    /\ jumps = 0
    /\ changes = 0
    /\ before = ns
    /\ \E w \in [1..Len(FcnLayers) -> Weights], b \in [1..Len(FcnLayers) -> Weights],
          x \in Weights :
          fwd = [w |-> w, b |-> b, x |-> x, h |-> x, layer |-> 0]

FwdStep ==
    /\ fwd.layer < Len(FcnLayers)
    /\ fwd' = [fwd EXCEPT
                 !.layer = @ + 1,
                 !.h = ForwardLayer(FcnLayers[fwd.layer + 1], fwd.w[fwd.layer + 1],
                                    fwd.b[fwd.layer + 1], fwd.h)]
    /\ UNCHANGED <<nb, file, ns, cell, pc, ctl, cursor, fault, fig, printed, jumps, changes,
                   before>>

FwdSpec == FwdInit /\ [][FwdStep]_vars

(***************************************************************************)
(* Properties                                                              *)
(***************************************************************************)
IndexOf(c) == CHOOSE i \in 1..Len(ForecastCells) : ForecastCells[i] = c

\* the kernel runs the forecasting notebook on the data file as shipped
Shipped == nb = "forecast" /\ file.exists /\ file.n = FullSize

InTrain(lo, hi) == cell = "train" /\ pc >= lo /\ pc <= hi

\* optimiser steps taken since the start of the training cell, given the
\* position in the loop, when every earlier training pass was complete
StepsAt ==
    LET nbat == NumBatches(ns["train_loader"])
        j == ns["j"].v
    IN  IF pc <= 4 THEN j * nbat
        ELSE IF pc = 5 THEN j * nbat + ctl.b
        ELSE IF pc <= 11 THEN j * nbat + ctl.b - 1
        ELSE (j + 1) * nbat

\* C1: on the shipped input the training cell runs epochs 0..99 in order,
\* none skipped, repeated or cut short by a fault: within epoch j exactly j
\* losses have been printed before, the validation pass starts only after
\* every training batch of the epoch has been stepped on, the loss is printed
\* only after every validation batch has been appended, the cell is never
\* stuck, and when it has ended exactly n_epochs = 100 lines are printed.
C1_HundredEpochs ==
    (Shipped /\ cell = "train") =>
        /\ fault = NoFault
        /\ \A i \in 1..Len(printed) : printed[i].j = i - 1
        /\ InTrain(3, 20) =>
              /\ ns["j"].v = ctl.e - 1
              /\ ns["j"].v < NEpochs
              /\ Len(printed) = ns["j"].v
              /\ ns["fcn"].steps = StepsAt
        /\ InTrain(20, 20) => ns["losses"].len = NumBatches(ns["val_loader"])
        /\ InTrain(1, 20) => ENABLED Statement
        /\ pc = 0 => Len(printed) = NEpochs

\* the training cell has ended after printing the loss of epoch 99
C1_Witness ==
    /\ Shipped
    /\ cell = "train"
    /\ pc = 0
    /\ fault = NoFault
    /\ Len(printed) = 100
    /\ printed[100].j = 99

\* row r of a two-dimensional array, named by its first input record
RowId(a, r) == [src |-> a.src, off |-> Elem(a, r, 0)]
RowSet(a, S) == {RowId(a, r) : r \in S}

\* C2: train_dataset holds exactly rows 0..21 and val_dataset exactly rows
\* 22..23 of the 24 reshaped rows (inputs and targets alike), the two are
\* disjoint and cover all rows, and no validation row is ever in a gradient
\* or in a batch the optimiser has stepped on.
C2_ValidationUnseen ==
    nb = "forecast" =>
        /\ Bound("train_dataset") =>
              /\ RowIds(ns["train_dataset"].x) = RowSet(ns["times_rs"], 0..21)
              /\ RowIds(ns["train_dataset"].y) = RowSet(ns["ss_number_rs"], 0..21)
              /\ Cardinality(RowIds(ns["train_dataset"].x)) = 22
        /\ Bound("val_dataset") =>
              /\ RowIds(ns["val_dataset"].x) = RowSet(ns["times_rs"], 22..23)
              /\ RowIds(ns["val_dataset"].y) = RowSet(ns["ss_number_rs"], 22..23)
              /\ Cardinality(RowIds(ns["val_dataset"].x)) = 2
        /\ AllBound({"train_dataset", "val_dataset"}) =>
              /\ RowIds(ns["train_dataset"].x) \cap RowIds(ns["val_dataset"].x) = {}
              /\ RowIds(ns["train_dataset"].x) \cup RowIds(ns["val_dataset"].x)
                   = RowIds(ns["times_rs"])
              /\ Cardinality(RowIds(ns["times_rs"])) = 24
        /\ AllBound({"fcn", "val_dataset"}) =>
              (ns["fcn"].seen \cup ns["fcn"].gradRows)
                 \cap RowIds(ns["val_dataset"].x) = {}

\* training has ended: the network has been stepped on all 22 training rows
C2_Witness ==
    /\ Shipped
    /\ cell = "train"
    /\ pc = 0
    /\ Bound("val_dataset")
    /\ ns["fcn"].steps > 0
    /\ ns["fcn"].seen = RowIds(ns["train_dataset"].x)
    /\ Cardinality(ns["fcn"].seen) = 22

\* the cells of the recipe for a scikit-learn regressor
RecipeOf(m) ==
    IF m = "svr"
    THEN [new |-> "svr_new", fit |-> "svr_fit", predict |-> "svr_predict",
          result |-> "curve_fit"]
    ELSE [new |-> "krr_new", fit |-> "krr_fit", predict |-> "krr_predict",
          result |-> "curve_fit_k"]

\* C3: top to bottom, svr and krr are constructed before .fit runs, fitted
\* before .predict runs, and .predict is never called on an unfitted model:
\* whenever the predict statement has its operands, the model is fitted, and
\* a prediction exists only of a fitted model.
C3_Recipe ==
    nb = "forecast" =>
        \A m \in {"svr", "krr"} :
            LET r == RecipeOf(m) IN
            /\ Bound(m) => cursor > IndexOf(r.new)
            /\ cell = r.fit => Bound(m)
            /\ (Bound(m) /\ IsFitted(ns[m])) => cursor > IndexOf(r.fit)
            /\ cell = r.predict => cursor > IndexOf(r.fit)
            /\ (cell = r.predict /\ pc = 1 /\ AllBound({m, "inf_ss"})) => IsFitted(ns[m])
            /\ (Bound(r.result) /\ ns[r.result].col = m) =>
                  /\ IsFitted(ns[m])
                  /\ cursor > IndexOf(r.predict)

\* both regressors have been constructed, fitted and used for prediction
C3_Witness ==
    /\ Shipped
    /\ cell = "krr_predict"
    /\ pc = 0
    /\ fault = NoFault
    /\ IsFitted(ns["svr"])
    /\ IsFitted(ns["krr"])
    /\ ns["curve_fit"].col = "svr"
    /\ ns["curve_fit_k"].col = "krr"

\* what holds of the scaler and of the arrays it produced
C4_State ==
    nb = "forecast" =>
        /\ (Bound("ss") /\ Fitted(ns["ss"])) =>
              /\ ns["time"].shape = <<ns["ss_data"].n>>
              /\ ns["ss"].params =
                    [col |-> "date", src |-> ns["ss_data"].n, n |-> ns["time"].shape[1]]
        /\ (cell = "time_ss" \/ (cell = "inf" /\ pc = 2) \/ cursor > IndexOf("inf")) =>
              (Bound("ss") /\ Fitted(ns["ss"]))
        /\ Bound("time_ss") =>
              /\ ns["time_ss"].sc = ns["ss"].params
              /\ ns["time_ss"].col = "date"
        /\ Bound("inf_ss") =>
              /\ ns["inf_ss"].sc = ns["ss"].params
              /\ ns["inf_ss"].sc = ns["time_ss"].sc
        /\ \A x \in {"ss_number", "ss_number_rs"} :
              Bound(x) => (ns[x].col = "mean" /\ ns[x].sc = NoScale)
        /\ \A m \in {"svr", "krr"} :
              (Bound(m) /\ IsFitted(ns[m])) => ns[m].fit.y.sc = NoScale
        /\ \A d \in {"train_dataset", "val_dataset"} :
              Bound(d) => (ns[d].y.sc = NoScale /\ ns[d].x.sc = ns["ss"].params)

\* the scaler object changes only in its own cell, and never once fitted
C4_Step ==
    /\ ns'["ss"] # ns["ss"] => cell = "scaler"
    /\ (Bound("ss") /\ Fitted(ns["ss"])) => ns'["ss"] = ns["ss"]

\* C4: ss is fitted once, on the full time column, before any ss.transform;
\* time_ss and inf_ss carry the parameters of that one fit, which never
\* change afterwards; ss_number and everything derived from it is unscaled.
C4_FitThenTransform == []C4_State /\ [][C4_Step]_vars

\* both transforms have been made with the fitted scaler
C4_Witness ==
    /\ Shipped
    /\ cell = "inf"
    /\ pc = 0
    /\ fault = NoFault
    /\ Fitted(ns["ss"])
    /\ ns["time_ss"].sc = ns["ss"].params
    /\ ns["inf_ss"].sc = ns["ss"].params

\* C5: forward applies ReLU after each of fc1, fc1b and fc2, so the output
\* of the network is never negative.
C5_OutputNonNegative ==
    /\ fwd.layer >= 1 => fwd.h >= 0
    /\ fwd.layer = Len(FcnLayers) => fwd.h = Relu(fwd.h)

\* C6: top to bottom on the 3248-record input no stage faults and every
\* stage fits the next: time_ss[8:] and ss_number[8:] reshape to 24 x 135,
\* 135 is the input width and the output width of FCN, prediction and target
\* of every batch have one shape, the network prediction has 24 * 135 = 3240
\* elements = len(time[8:]), the SVR and kernel-ridge predictions have 1000
\* elements = len(inf), and every curve drawn has as many x as y values.
C6_ShapesFit ==
    Shipped =>
        /\ fault = NoFault
        /\ \A x \in {"time", "ss_number"} : Bound(x) => ns[x].shape = <<3248>>
        /\ Bound("times_rs") =>
              /\ ns["times_rs"].shape = <<24, 135>>
              /\ ns["times_rs"].shape[2] = FcnLayers[1].in
        /\ Bound("ss_number_rs") =>
              /\ ns["ss_number_rs"].shape = <<24, 135>>
              /\ ns["ss_number_rs"].shape[2] = FcnLayers[Len(FcnLayers)].out
        /\ \A i \in 1..(Len(FcnLayers) - 1) : FcnLayers[i].out = FcnLayers[i + 1].in
        /\ (InTrain(9, 11) \/ InTrain(18, 20)) => ns["model"].shape = ns["out"].shape
        /\ (Bound("curve_fit") /\ ns["curve_fit"].col = "svr") =>
              /\ ns["curve_fit"].shape = <<1000>>
              /\ ns["curve_fit"].shape = ns["inf"].shape
        /\ Bound("curve_fit_k") =>
              /\ ns["curve_fit_k"].shape = <<1000>>
              /\ ns["curve_fit_k"].shape = ns["inf"].shape
        /\ (Bound("curve_fit") /\ ns["curve_fit"].col = "fcn") =>
              /\ Size(ns["curve_fit"]) = 24 * 135
              /\ Size(ns["curve_fit"]) = 3240
              /\ Size(ns["curve_fit"]) = Size(SliceFrom(ns["time"], 8))
        /\ \A i \in 1..Len(fig.curves) :
              fig.curves[i].x.shape = fig.curves[i].y.shape

\* plot_nn() has drawn the data and the 3240-element network prediction
C6_Witness ==
    /\ Shipped
    /\ cell = "call_plot_nn"
    /\ pc = 0
    /\ fault = NoFault
    /\ Len(fig.curves) = 2
    /\ fig.curves[2].y.col = "fcn"
    /\ fig.curves[2].y.shape = <<3240>>

\* the names a cell's statements assign, or whose object they change in place
Writes(c) ==
    CASE c = "imports" -> ImportedNames
      [] c = "read_csv" -> {"ss_data"}
      [] c = "columns" -> {"time", "ss_number"}
      [] c = "scaler" -> {"ss"}
      [] c = "time_ss" -> {"time_ss"}
      [] c \in {"svr_new", "svr_fit"} -> {"svr"}
      [] c = "inf" -> {"inf", "inf_ss"}
      [] c = "svr_predict" -> {"curve_fit"}
      [] c = "def_plot_svr" -> {"plot_svr"}
      [] c \in {"krr_new", "krr_fit"} -> {"krr"}
      [] c = "krr_predict" -> {"curve_fit_k"}
      [] c = "def_plot_krr" -> {"plot_krr"}
      [] c = "def_plot_comp" -> {"plot_comp"}
      [] c = "tensors" -> {"a", "b", "c"}
      [] c = "class_FCN" -> {"FCN"}
      [] c = "times_rs" -> {"times_rs"}
      [] c = "ss_number_rs" -> {"ss_number_rs"}
      [] c = "datasets" -> {"train_dataset", "val_dataset"}
      [] c = "loaders" -> {"train_loader", "val_loader"}
      [] c = "setup" -> {"fcn", "n_epochs", "lr", "optimiser", "loss"}
      [] c = "train" -> {"j", "inp", "out", "model", "l", "losses", "fcn", "optimiser"}
      [] c = "infer" -> {"curve_fit"}
      [] c = "def_plot_nn" -> {"plot_nn"}
      [] c = "ex_imports" -> {"np", "plt"}
      [] c = "ex_load" -> {"data"}
      [] c = "ex_import_pca" -> {"PCA"}
      [] c = "ex_import_hier" -> {"linkage", "dendrogram", "fcluster"}
      [] OTHER -> {}

BoundAtStart == {x \in Names : before[x].k # "unbound"}

\* C7, as stated: a fault halts the cell, and every name that was bound when
\* the faulting cell started still has the value it had then
C7_FaultKeepsAll ==
    fault # NoFault =>
        /\ pc = 0
        /\ \A x \in BoundAtStart : ns[x] = before[x]

C7_State ==
    fault # NoFault =>
        /\ pc = 0
        /\ ctl = NoCtl
        /\ fault.cell = cell
        /\ \A x \in BoundAtStart : Bound(x)
        /\ \A x \in BoundAtStart \ Writes(cell) : ns[x] = before[x]

C7_Step ==
    \* the statement that faults has no effect of its own
    /\ (fault = NoFault /\ fault' # NoFault) =>
          /\ pc # 0
          /\ fault' = [cell |-> cell, stmt |-> pc]
          /\ UNCHANGED <<ns, fig, printed>>
    \* nothing runs after the fault until the kernel is given a cell again
    /\ fault # NoFault =>
          /\ UNCHANGED <<ns, fig>>
          /\ pc' = 0 \/ (RunCell /\ fault' = NoFault)

\* C7, amended: a fault ends the cell at the faulting statement, which has no
\* effect; nothing handles it and nothing runs until another cell is executed;
\* every name bound when the cell started is still bound, and keeps its value
\* unless it is one the cell's own statements assign or change in place (what
\* the statements completed before the fault did to those is kept)
C7_FaultHalts == []C7_State /\ [][C7_Step]_vars

\* a second run of the training cell, on loaders rebuilt from a longer file,
\* faulted in its forward pass after its completed statements had rebound the
\* epoch counter and the batch; the arrays it only reads are as before
C7_Witness ==
    /\ fault # NoFault
    /\ fault.cell = "train"
    /\ fault.stmt > 1
    /\ {"j", "inp", "out"} \subseteq BoundAtStart
    /\ ns["j"] # before["j"]
    /\ ns["inp"] # before["inp"]
    /\ ns["times_rs"] = before["times_rs"]

Models == {"ss", "svr", "krr", "fcn"}

\* the cell that constructs the model object and the cell that fits it
Creator(m) ==
    CASE m = "ss" -> "scaler" [] m = "svr" -> "svr_new" [] m = "krr" -> "krr_new"
      [] m = "fcn" -> "setup"
Owner(m) ==
    CASE m = "ss" -> "scaler" [] m = "svr" -> "svr_fit" [] m = "krr" -> "krr_fit"
      [] m = "fcn" -> "train"
Fresh(m) ==
    CASE m = "ss" -> NewScaler [] m = "svr" -> NewRegressor("svr")
      [] m = "krr" -> NewRegressor("krr") [] m = "fcn" -> NewFcn

\* what fitting has left in a model object
Learnt(v) ==
    CASE v.k = "scaler" -> v.params
      [] v.k \in {"svr", "krr"} -> v.fit
      [] v.k = "fcn" -> [steps |-> v.steps, seen |-> v.seen]
      [] OTHER -> Unbound

C8_Step ==
    \A m \in Models :
        ns'[m] # ns[m] =>
            /\ pc # 0
            /\ cell \in {Creator(m), Owner(m)}
            /\ cell # Owner(m) => ns'[m] = Fresh(m)
            /\ (Learnt(ns'[m]) # Learnt(ns[m]) /\ ns'[m] # Fresh(m)) => cell = Owner(m)

\* C8: in any order of cell executions, the fitted state of ss, svr, krr and
\* fcn is written only by statements of the cell that fits the model (the
\* scaler cell, the svr.fit cell, the krr.fit cell, the training cell); the
\* cell that constructs the object binds a fresh unfitted one; every other
\* cell leaves the object as it is
C8_OwnedByFitCell == [][C8_Step]_vars

\* all four models are fitted, and the cells after each fit (transforming,
\* predicting, inference, plotting) have run and left them fitted as they were
C8_Witness ==
    /\ cell = "call_plot_nn"
    /\ pc = 0
    /\ fault = NoFault
    /\ AllBound(Models \cup {"curve_fit", "curve_fit_k", "inf_ss"})
    /\ Fitted(ns["ss"])
    /\ IsFitted(ns["svr"])
    /\ IsFitted(ns["krr"])
    /\ ns["fcn"].steps = NEpochs
    /\ ns["curve_fit"].col = "fcn"
    /\ ns["curve_fit_k"].col = "krr"
    /\ ns["inf_ss"].sc = ns["ss"].params

C9_State ==
    Bound("data") =>
        /\ \E f \in FilesOf(nb) : f.exists /\ ns["data"] = Loaded(f)
        /\ changes = 0 => ns["data"] = Loaded(file)
        /\ ns["data"].sc = NoScale
        /\ ns["data"].off = 0

C9_Step ==
    ns'["data"] # ns["data"] =>
        /\ cell = "ex_load"
        /\ pc = 1
        /\ file.exists
        /\ ns'["data"] = Loaded(file)

\* C9: in the exercises notebook, whatever cells are executed in whatever order,
\* data is bound and changed by the np.load statement only, to the array in
\* the file; every other statement leaves it as loaded, so data is the array
\* read from the file
C9_LoadedOnce == []C9_State /\ [][C9_Step]_vars

\* every cell after the load up to the last one has been executed, one of them
\* out of order, and data is still the 400 x 10 array of the file
C9_Witness ==
    /\ nb = "exercises"
    /\ cell = "ex_todo_hist"
    /\ pc = 0
    /\ jumps = 1
    /\ Bound("data")
    /\ Bound("fcluster")
    /\ ns["data"] = Loaded(file)
    /\ ns["data"].shape = <<400, Features>>

\* x holds (scaled) times and y the values of the same input records, in the
\* same positions
Aligned(x, y) ==
    /\ x.col = "date"
    /\ y.col = "mean"
    /\ x.src = y.src
    /\ x.off = y.off
    /\ x.shape = y.shape

\* C10: executed top to bottom, time and ss_number have the same length and
\* hold the same records of the file in the same order; times_rs[r][c] and
\* ss_number_rs[r][c] both hold input record 8 + w*r + c, w the row width,
\* which is 8 + 135*r + c for r in 0..23 and c in 0..134 on the 3248-record
\* file; the datasets and every batch given to the network pair the scaled
\* time and the value of one and the same record
C10_Aligned ==
    nb = "forecast" =>
        /\ AllBound({"time", "ss_number"}) =>
              /\ Aligned(ns["time"], ns["ss_number"])
              /\ ns["time"].off = 0
              /\ ns["time"].shape = <<file.n>>
        /\ AllBound({"times_rs", "ss_number_rs"}) =>
              /\ Aligned(ns["times_rs"], ns["ss_number_rs"])
              /\ ns["times_rs"].sc = ns["ss"].params
              /\ ns["ss_number_rs"].sc = NoScale
              /\ \A r \in 0..(NRows - 1), c \in 0..(ns["times_rs"].shape[2] - 1) :
                    /\ Elem(ns["times_rs"], r, c) = SkipRecords + ns["times_rs"].shape[2] * r + c
                    /\ Elem(ns["ss_number_rs"], r, c) = Elem(ns["times_rs"], r, c)
              /\ Shipped =>
                    \A r \in 0..23, c \in 0..134 :
                        /\ Elem(ns["times_rs"], r, c) = 8 + 135 * r + c
                        /\ Elem(ns["ss_number_rs"], r, c) = 8 + 135 * r + c
        /\ \A d \in {"train_dataset", "val_dataset"} :
              Bound(d) => Aligned(ns[d].x, ns[d].y)
        /\ AllBound({"inp", "out"}) =>
              /\ Aligned(ns["inp"], ns["out"])
              /\ \A r \in 0..(ns["inp"].shape[1] - 1), c \in 0..(ns["inp"].shape[2] - 1) :
                    Elem(ns["inp"], r, c) = Elem(ns["out"], r, c)

\* on the 3248-record file the network is given the training batch: 22 rows
\* of 135 (scaled time, value) pairs, the last pair being record 2977
C10_Witness ==
    /\ Shipped
    /\ InTrain(8, 8)
    /\ ns["inp"].shape = <<22, 135>>
    /\ Aligned(ns["inp"], ns["out"])
    /\ Elem(ns["inp"], 21, 134) = 8 + 135 * 21 + 134
    /\ Elem(ns["out"], 21, 134) = 2977

\* the names a cell reads that none of its own earlier statements binds; a
\* call of a function reads what the function's body reads
FreeReads(c) ==
    CASE c = "read_csv" -> {"pd"}
      [] c = "tail" -> {"ss_data"}
      [] c = "plot_data" -> {"plt", "ss_data"}
      [] c = "columns" -> {"ss_data"}
      [] c = "scaler" -> {"StandardScaler", "time"}
      [] c = "time_ss" -> {"ss", "time"}
      [] c = "svr_new" -> {"SVR"} \cup KernelNames
      [] c = "svr_fit" -> {"svr", "time_ss", "ss_number"}
      [] c = "inf" -> {"np", "ss"}
      [] c = "svr_predict" -> {"svr", "inf_ss"}
      [] c = "call_plot_svr" -> {"plot_svr", "plt", "time", "ss_number", "inf", "curve_fit"}
      [] c = "krr_new" -> {"KernelRidge"} \cup KernelNames
      [] c = "krr_fit" -> {"krr", "time_ss", "ss_number"}
      [] c = "krr_predict" -> {"krr", "inf_ss"}
      [] c = "call_plot_krr" -> {"plot_krr", "plt", "time", "ss_number", "inf", "curve_fit_k"}
      [] c = "call_plot_comp" ->
            {"plot_comp", "plt", "time", "ss_number", "inf", "curve_fit_k", "curve_fit"}
      [] c = "tensors" -> {"np", "torch"}
      [] c = "class_FCN" -> {"nn"}
      [] c = "times_rs" -> {"time_ss"}
      [] c = "ss_number_rs" -> {"ss_number"}
      [] c = "datasets" -> DatasetInputs
      [] c = "loaders" -> {"DataLoader", "train_dataset", "val_dataset"}
      [] c = "setup" -> {"FCN", "nn", "optim"}
      [] c = "train" ->
            {"n_epochs", "fcn", "train_loader", "val_loader", "optimiser", "loss",
             "F", "torch", "np"}
      [] c = "infer" -> {"torch", "fcn", "times_rs", "F"}
      [] c = "call_plot_nn" -> {"plot_nn", "plt", "time", "ss_number", "curve_fit"}
      [] c = "ex_load" -> {"np"}
      [] c = "ex_bar" -> {"plt", "np", "pca"}
      [] OTHER -> {}

\* the notebook with the data file it is shipped for
AsShipped == IF nb = "forecast" THEN Shipped ELSE file.exists

\* C11, as stated: top to bottom, every name a cell reads is bound when the
\* cell starts, the bar-chart cell of the exercises notebook included
C11_AllReadsBound ==
    (AsShipped /\ pc = 1) => AllBound(FreeReads(cell))

\* C11, amended: top to bottom, every name a cell reads is bound when the cell
\* starts, except pca: no cell of the exercises notebook binds it, and the
\* bar-chart cell, the only one that reads it, faults in its plt.bar statement;
\* it is the only fault of either notebook
C11_ReadsBoundButPca ==
    AsShipped =>
        /\ ~Bound("pca")
        /\ pc = 1 => AllBound(FreeReads(cell) \ {"pca"})
        /\ (cell = "ex_bar" /\ pc = 0) => fault = [cell |-> "ex_bar", stmt |-> 2]
        /\ fault # NoFault => fault = [cell |-> "ex_bar", stmt |-> 2]

\* the bar-chart cell has faulted on pca after opening its figure, and the
\* cells after it have been executed down to the last
C11_Witness ==
    /\ nb = "exercises"
    /\ file.exists
    /\ cell = "ex_todo_hist"
    /\ pc = 0
    /\ fig = NoFig
    /\ ~Bound("pca")
    /\ AllBound({"np", "plt", "data", "PCA", "linkage", "dendrogram", "fcluster"})

\* the global x holds the prediction of model m at the inf points
HoldsPrediction(x, m) ==
    /\ AllBound({x, m, "inf", "inf_ss"})
    /\ ns[x] = Predict(ns[m], ns["inf_ss"])
    /\ ns[x].col = m
    /\ ns[x].shape = <<InfPoints>>
    /\ ns[x].shape = ns["inf"].shape

Calling(c) == cell = c /\ pc # 0

\* C12: top to bottom, while plot_svr() and plot_comp() run curve_fit is the
\* SVR prediction (1000 values, as many as inf), while plot_krr() and
\* plot_comp() run curve_fit_k is the kernel-ridge prediction, and while
\* plot_nn() runs curve_fit is the network's prediction of 3240 values; the
\* curves each call has drawn are those predictions
C12_LabelledPrediction ==
    /\ (Calling("call_plot_svr") \/ Calling("call_plot_comp")) =>
          HoldsPrediction("curve_fit", "svr")
    /\ (Calling("call_plot_krr") \/ Calling("call_plot_comp")) =>
          HoldsPrediction("curve_fit_k", "krr")
    /\ Calling("call_plot_nn") =>
          /\ Bound("curve_fit")
          /\ ns["curve_fit"].col = "fcn"
          /\ Size(ns["curve_fit"]) = PlotLen
    /\ (cell = "call_plot_svr" /\ pc = 0 /\ fault = NoFault) =>
          /\ Len(fig.curves) = 2
          /\ fig.curves[2].y.col = "svr"
    /\ (cell = "call_plot_krr" /\ pc = 0 /\ fault = NoFault) =>
          /\ Len(fig.curves) = 2
          /\ fig.curves[2].y.col = "krr"
    /\ (cell = "call_plot_comp" /\ pc = 0 /\ fault = NoFault) =>
          /\ Len(fig.curves) = 3
          /\ fig.curves[2].y.col = "krr"
          /\ fig.curves[3].y.col = "svr"
    /\ (cell = "call_plot_nn" /\ pc = 0 /\ fault = NoFault) =>
          /\ Len(fig.curves) = 2
          /\ fig.curves[2].y.col = "fcn"

\* plot_comp() has drawn the data, the kernel-ridge curve and the SVR curve
C12_Witness ==
    /\ cell = "call_plot_comp"
    /\ pc = 0
    /\ fault = NoFault
    /\ Len(fig.curves) = 3
    /\ fig.curves[2].y = ns["curve_fit_k"]
    /\ fig.curves[3].y = ns["curve_fit"]
    /\ fig.curves[3].y.col = "svr"
    /\ fig.legend = <<"Data", "Kernel Ridge Regression", "SVM">>

SvrPlots == {"call_plot_svr", "call_plot_comp"}

\* the figure on screen is the one the plot call executed last has opened
OwnFigure == pc # 1 /\ ~(fault # NoFault /\ fault.stmt = 1)

\* C13: in any order of cell executions, a figure carrying the legend of
\* plot_svr() or of plot_comp() shows the SVR prediction as the curve
\* labelled Fit resp. SVM, a call of either that ends without fault has drawn
\* it, and no figure of either ever shows the network's output: called while
\* curve_fit holds the network's output, plot_svr() and plot_comp() fault
C13_NeverMislabelled ==
    /\ fig.legend = <<"Data", "Fit">> =>
          /\ Len(fig.curves) = 2
          /\ fig.curves[2].y.col = "svr"
          /\ fig.curves[2].y.shape = fig.curves[2].x.shape
    /\ fig.legend = <<"Data", "Kernel Ridge Regression", "SVM">> =>
          /\ Len(fig.curves) = 3
          /\ fig.curves[3].y.col = "svr"
          /\ fig.curves[3].y.shape = fig.curves[3].x.shape
    /\ (cell \in SvrPlots /\ pc = 0 /\ fault = NoFault) =>
          /\ fig.legend # <<>>
          /\ fig.curves[Len(fig.curves)].y.col = "svr"
          /\ fig.curves[Len(fig.curves)].y = ns["curve_fit"]
    /\ (cell \in SvrPlots /\ OwnFigure) =>
          \A i \in 1..Len(fig.curves) : fig.curves[i].y.col # "fcn"
    /\ (cell \in SvrPlots /\ pc = 0 /\ Bound("curve_fit") /\ ns["curve_fit"].col = "fcn") =>
          fault # NoFault

\* plot_svr() was called again after the inference cell had rebound curve_fit
\* to the network's output; it has faulted plotting it, the figure showing
\* the data points only
C13_Witness ==
    /\ fault = [cell |-> "call_plot_svr", stmt |-> 3]
    /\ Bound("curve_fit")
    /\ ns["curve_fit"].col = "fcn"
    /\ ns["curve_fit"].shape = <<1, NRows, FcOut>>
    /\ Len(fig.curves) = 1
    /\ fig.legend = <<>>

C14_State ==
    /\ InTrain(8, 10) =>
          /\ ns["fcn"].grad = 0
          /\ ns["fcn"].gradRows = {}
    /\ InTrain(9, 11) => ns["model"].rows = RowIds(ns["inp"])
    /\ InTrain(10, 11) => ns["l"].rows = RowIds(ns["inp"])
    /\ InTrain(11, 11) =>
          /\ ns["fcn"].grad = 1
          /\ ns["fcn"].gradRows = RowIds(ns["inp"])

C14_Step ==
    \* the five operations follow one another, unless one of them faults
    /\ InTrain(7, 10) => pc' \in {pc + 1, 0}
    /\ (InTrain(7, 10) /\ pc' = 0) => fault' = [cell |-> "train", stmt |-> pc]
    /\ InTrain(11, 11) => pc' = 5
    \* zero_grad
    /\ (InTrain(7, 7) /\ pc' = 8) => ns'["fcn"] = ZeroGrad(ns["fcn"])
    \* backward: onto a zeroed gradient, and the step comes next
    /\ (Bound("fcn") /\ ns'["fcn"].grad > ns["fcn"].grad) =>
          /\ InTrain(10, 10)
          /\ ns["fcn"].grad = 0
          /\ pc' = 11
    \* step: on the gradient of the backward just before it, which is that of
    \* the current batch
    /\ (Bound("fcn") /\ ns'["fcn"].steps > ns["fcn"].steps) =>
          /\ InTrain(11, 11)
          /\ ns["fcn"].grad = 1
          /\ ns'["fcn"].steps = ns["fcn"].steps + 1
          /\ ns'["fcn"].seen = ns["fcn"].seen \cup RowIds(ns["inp"])
          /\ ns'["optimiser"].t = ns["optimiser"].t + 1

\* C14: in every training batch, in any run of the training cell, zero_grad,
\* forward, loss, backward and step follow one another in this order; backward
\* always adds to a zeroed gradient, so at each step the gradient is that of
\* the current batch alone, and every step follows a backward of the same
\* iteration
C14_BatchOrder == []C14_State /\ [][C14_Step]_vars

\* the step of the second epoch is about to be taken on the gradient of one
\* backward pass over the 22 rows of the current batch
C14_Witness ==
    /\ InTrain(11, 11)
    /\ ns["j"].v = 1
    /\ ns["fcn"].steps = 1
    /\ ns["fcn"].grad = 1
    /\ ns["fcn"].gradRows = RowIds(ns["inp"])
    /\ Cardinality(ns["fcn"].gradRows) = NRows - ValRows

\* the parameters of the network with their gradients, and the optimiser
Trained == [steps |-> ns["fcn"].steps, seen |-> ns["fcn"].seen,
            grad |-> ns["fcn"].grad, gradRows |-> ns["fcn"].gradRows,
            opt |-> ns["optimiser"]]

C15_State ==
    /\ InTrain(13, 20) => ~ns["fcn"].training
    /\ InTrain(15, 19) => ctl.nograd
    /\ InTrain(18, 19) =>
          /\ ~ns["model"].graph
          /\ ~ns["l"].graph \/ pc = 18
          /\ ns["model"].rows = RowIds(ns["inp"])
    /\ InTrain(4, 11) => ns["fcn"].training

C15_Step ==
    \* validation and inference leave parameters, gradients and optimiser alone
    /\ (InTrain(12, 20) \/ (cell = "infer" /\ pc = 1 /\ AllBound({"fcn", "optimiser"}))) =>
          Trained' = Trained
    \* between fcn.eval() and the next fcn.train() nothing but validation runs
    /\ InTrain(12, 19) => pc' \in 13..20 \cup {0}
    /\ InTrain(20, 20) => pc' \in {2, 0}
    /\ InTrain(2, 2) => pc' \in {3, 0}
    \* a step is taken in train mode only
    /\ (Bound("fcn") /\ ns'["fcn"].steps > ns["fcn"].steps) =>
          /\ ns["fcn"].training
          /\ InTrain(11, 11)

\* C15: in any run of the training cell the validation pass of every epoch
\* runs in eval mode, under no_grad from the first validation batch to the
\* last, computes its loss without a graph, and changes neither the
\* parameters, nor their gradients, nor the optimiser; nothing but validation
\* statements run between fcn.eval() and the next fcn.train(); the inference
\* cell changes none of them either; every optimiser step is taken in train
\* mode
C15_ValidationReadsOnly == []C15_State /\ [][C15_Step]_vars

\* the loss of the validation batch of the second epoch has been computed,
\* in eval mode and without a graph, on the two validation rows, the network
\* being as the second step left it
C15_Witness ==
    /\ InTrain(19, 19)
    /\ ns["j"].v = 1
    /\ ns["fcn"].steps = 2
    /\ ~ns["fcn"].training
    /\ ctl.nograd
    /\ ~ns["l"].graph
    /\ Cardinality(ns["l"].rows) = ValRows
    /\ ns["l"].rows \cap ns["fcn"].seen = {}

\* C16: top to bottom, the loaders hold 22 and 2 rows in one batch each; in
\* every epoch one training batch and one validation batch are processed and
\* one optimiser step is taken, so that on the 3248-record file j steps have
\* been taken when epoch j starts and 100 when the cell ends; losses is
\* emptied before the validation batches of every epoch and holds exactly one
\* loss when its mean is printed, for each of the 100 printed lines
C16_OneBatchPerEpoch ==
    nb = "forecast" =>
        /\ Bound("train_loader") =>
              /\ ns["train_loader"].ds.x.shape[1] = NRows - ValRows
              /\ NRows - ValRows = 22
              /\ NumBatches(ns["train_loader"]) = 1
        /\ Bound("val_loader") =>
              /\ ns["val_loader"].ds.x.shape[1] = ValRows
              /\ ValRows = 2
              /\ NumBatches(ns["val_loader"]) = 1
        /\ InTrain(5, 5) => ctl.b \in {0, 1}
        /\ InTrain(6, 11) =>
              /\ ctl.b = 1
              /\ ns["inp"].shape[1] = 22
        /\ InTrain(15, 15) => ctl.b \in {0, 1}
        /\ InTrain(16, 19) =>
              /\ ctl.b = 1
              /\ ns["inp"].shape[1] = 2
        /\ (Shipped /\ InTrain(3, 11)) =>
              ns["fcn"].steps = IF pc = 5 THEN ns["j"].v + ctl.b ELSE ns["j"].v
        /\ (Shipped /\ InTrain(12, 20)) => ns["fcn"].steps = ns["j"].v + 1
        /\ (Shipped /\ cell = "train" /\ pc = 0) =>
              /\ ns["fcn"].steps = 100
              /\ ns["optimiser"].t = 100
              /\ Len(printed) = 100
        /\ InTrain(14, 14) => ns["losses"].len = 0
        /\ (InTrain(15, 15) \/ InTrain(20, 20)) => ns["losses"].len = ctl.b
        /\ InTrain(16, 19) => ns["losses"].len = 0
        /\ InTrain(20, 20) => ns["losses"].len = 1
        /\ cell = "train" => \A i \in 1..Len(printed) : printed[i].n = 1

\* the training cell has ended: 100 steps taken, 100 lines printed, each the
\* mean of a single loss
C16_Witness ==
    /\ Shipped
    /\ cell = "train"
    /\ pc = 0
    /\ fault = NoFault
    /\ ns["fcn"].steps = 100
    /\ ns["losses"].len = 1
    /\ Len(printed) = 100
    /\ printed[100] = [j |-> 99, n |-> 1]

\* cell c has been executed and has ended
Ended(c) == cell = c /\ pc = 0

\* cell c comes before cell d in the forecasting notebook
Before(c, d) == IndexOf(c) < IndexOf(d)

\* C17: for a file of N records, executed top to bottom: the two reshape cells
\* end without fault exactly when N - 8 is a multiple of 24; the training cell
\* ends without fault exactly when N = 3248, and when N - 8 is a multiple of
\* 24 with (N - 8) / 24 # 135 it faults in its first forward pass, before any
\* optimiser step; plot_nn() ends without fault exactly when N - 8 = 3240 and
\* otherwise faults in reshape(3240); no cell before the times_rs cell faults,
\* for N = 3248 none at all, and when N - 8 is a multiple of 24 none before
\* the training cell, so the first fault, where Run All halts, is in the first
\* of these cells that is reached
C17_FaultFreeIff3248 ==
    (nb = "forecast" /\ file.exists) =>
        LET N == file.n
            divisible == (N - SkipRecords) % NRows = 0
            width == (N - SkipRecords) \div NRows
        IN  /\ (Ended("times_rs") \/ Ended("ss_number_rs")) =>
                  (fault = NoFault <=> divisible)
            /\ Ended("train") =>
                  /\ fault = NoFault <=> N = 3248
                  /\ (divisible /\ width # 135) =>
                        /\ fault = [cell |-> "train", stmt |-> 8]
                        /\ ns["fcn"].steps = 0
                        /\ ns["j"].v = 0
            /\ Ended("infer") => (fault = NoFault <=> N = 3248)
            /\ Ended("call_plot_nn") =>
                  /\ fault = NoFault <=> N - 8 = 3240
                  /\ fault # NoFault => fault = [cell |-> "call_plot_nn", stmt |-> 3]
            /\ fault # NoFault =>
                  /\ N # 3248
                  /\ ~Before(fault.cell, "times_rs")
                  /\ divisible => ~Before(fault.cell, "train")
            /\ (N = 3248 /\ ~Ended("call_plot_nn")) => ENABLED StepwiseNext

\* a file that has gained 24 records: both reshapes have succeeded, with rows
\* of 136, and the training cell has faulted in its first forward pass
C17_Witness ==
    /\ nb = "forecast"
    /\ file = [exists |-> TRUE, n |-> FullSize + NRows]
    /\ Ended("train")
    /\ fault = [cell |-> "train", stmt |-> 8]
    /\ ns["times_rs"].shape = <<NRows, FcIn + 1>>
    /\ ns["fcn"].steps = 0

====
